---- MODULE Spec2Model ----
(***************************************************************************)
(* The menu navigation state machine of ubo_gui.menu.MenuWidget            *)
(* (src/ubo_gui/menu/__init__.py) with the page widget it builds           *)
(* (src/src/page/__init__.py).                                             *)
(*                                                                         *)
(* The widget's methods are operators from a widget record to a widget     *)
(* record, one per method and named as in the source; an action applies    *)
(* one public method (or one callback of the event loop) to the record     *)
(* made of the variables.  A Kivy AliasProperty is read as the value of    *)
(* its getter on the current fields (self.pages is get_pages(), self.depth *)
(* is get_depth(), self.current_screen is get_current_screen()).           *)
(***************************************************************************)
EXTENDS Integers, Sequences, FiniteSets, TLC

VARIABLES
    stack,                      \* MenuWidget.stack: frames, bottom first
    current_menu,               \* MenuWidget._current_menu (None or a menu)
    current_menu_items,         \* MenuWidget._current_menu_items
    current_application,        \* MenuWidget._current_application
    page_index,                 \* MenuWidget.page_index
    cancel_items_subscription,  \* the menu whose items are subscribed to, or None
    subscribers,                \* the menus whose items call refresh_items, oldest first
    screen,                     \* screen_manager.current_screen
    transition,                 \* the transition in flight: "none", "no", "slide", "swap"
    fps,                        \* the display driver's mode: "low" or "high"
    bound,                      \* applications whose on_close is bound to close_application
    root,                       \* the argument of the last set_root_menu, or None
    nav,                        \* navigation depth: steps in that are not undone yet
    last,                       \* the last operation: its name, inputs and outcome
    earlier                     \* the earlier MenuWidget (src/ubo/menu) and its last call

vars == <<stack, current_menu, current_menu_items, current_application, page_index,
          cancel_items_subscription, subscribers, screen, transition, fps, bound,
          root, nav, last, earlier>>

----------------------------------------------------------------------------
(* Bounds of the model *)

\* the deepest stack the model explores
MaxDepth == 2
\* the largest number of items a dynamic (lazy or reactive) menu produces
MaxItems == 4
\* the number of application instances alive at once
MaxApps == 2
\* the longest item list the pagination is checked on
MaxLen == 9

----------------------------------------------------------------------------
(* Menus, items and applications the widget is driven with *)

None == 0

\* 1: plain, 7 items.  2: headed, 4 items.  3: plain, items from a callable.
\* 4: headed, items from an observable (has subscribe).  5: plain, no items.
Menus == 1..5
Headed == {2, 4}
Lazy == {3}
Reactive == {4}
Dynamic == Lazy \cup Reactive
Apps == 1..MaxApps

StaticCount(m) == CASE m = 1 -> 7 [] m = 2 -> 4 [] OTHER -> 0

\* an item is <<menu, position>>; its variant follows from its position
Item(m, i) == <<m, i>>
ItemKind(it) == CASE it[2] % 3 = 1 -> "SubMenuItem"
                  [] it[2] % 3 = 2 -> "ApplicationItem"
                  [] OTHER -> "ActionItem"
\* SubMenuItem.sub_menu
sub_menu(it) == ((it[1] + it[2] - 1) % 5) + 1

\* what an ActionItem's callback may return: nothing, a menu, an application class
NoReturn == <<"none", 0>>
Returns == {NoReturn} \cup {<<"menu", m>> : m \in Menus} \cup {<<"app", 0>>}

----------------------------------------------------------------------------
(* Helpers *)

\* math.ceil(a / b) for a >= 0, b > 0
Ceil(a, b) == (a + b - 1) \div b

Max(a, b) == IF a >= b THEN a ELSE b

\* Python's seq[a:b]
SliceIndex(i, n) == IF i < 0 THEN Max(i + n, 0) ELSE IF i > n THEN n ELSE i
PySlice(seq, a, b) ==
    LET lo == SliceIndex(a, Len(seq))
        hi == SliceIndex(b, Len(seq))
    IN  IF lo >= hi THEN <<>> ELSE SubSeq(seq, lo + 1, hi)

\* list.remove(x): drops the first element equal to x
RECURSIVE ListRemove(_, _)
ListRemove(seq, x) ==
    IF seq = <<>> THEN <<>>
    ELSE IF Head(seq) = x THEN Tail(seq)
    ELSE <<Head(seq)>> \o ListRemove(Tail(seq), x)

MenuFrame(m, p) == <<"menu", m, p>>
AppFrame(a) == <<"app", a, 0>>
InStack(stk, f) == \E i \in 1..Len(stk) : stk[i] = f

Raised(s) == s.out \notin {"ok", "warning", "app"}
Raise(s, e) == [s EXCEPT !.out = e]

----------------------------------------------------------------------------
(* PageWidget *)

MAX_ITEMS == 3
PAGE_SIZE == 3

NoItem == <<0, 0>>
NoScreen == [k |-> "none", app |-> None, items |-> <<>>]
ApplicationScreen(a) == [k |-> "app", app |-> a, items |-> <<>>]

\* PageWidget that already refuses MAX_ITEMS items
PageWidget_refuses_full(items) ==
    IF Len(items) >= MAX_ITEMS
    THEN [k |-> "ValueError", app |-> None, items |-> <<>>]
    ELSE [k |-> "page", app |-> None, items |-> items]

\* PageWidget.__init__: more than MAX_ITEMS items is a ValueError
PageWidget(items) ==
    IF Len(items) > MAX_ITEMS
    THEN [k |-> "ValueError", app |-> None, items |-> <<>>]
    ELSE [k |-> "page", app |-> None, items |-> items]

\* get_item checking only the upper end: Python's items[-1] is the last item
get_item_no_lower_bound(page, index) ==
    IF index >= Len(page.items) \/ index + Len(page.items) < 0 THEN NoItem
    ELSE IF index < 0 THEN page.items[index + Len(page.items) + 1]
    ELSE page.items[index + 1]

\* PageWidget.get_item: None (with a warning) outside 0 <= index < len(items)
get_item(page, index) ==
    IF ~(0 <= index /\ index < Len(page.items)) THEN NoItem ELSE page.items[index + 1]

----------------------------------------------------------------------------
(* MenuWidget: getters *)

\* the first n items of a menu
Items(m, n) == [i \in 1..n |-> Item(m, i)]

\* menu_items(menu): the menu's item sequence, or what its callable or observable
\* produces at this call (s.produces items)
menu_items(s, menu) ==
    IF menu = None THEN <<>>
    ELSE IF menu \in Dynamic THEN Items(menu, s.produces)
    ELSE Items(menu, StaticCount(menu))

get_depth(s) == Len(s.stack)

\* get_pages counting whole pages plus one
get_pages_floor_plus_one(s) ==
    IF s.current_menu = None THEN 0
    ELSE IF s.current_menu \in Headed
         THEN (Len(s.current_menu_items) + 2) \div 3 + 1
         ELSE Len(s.current_menu_items) \div 3 + 1

get_pages(s) ==
    IF s.current_menu = None THEN 0
    ELSE IF s.current_menu \in Headed
         THEN Ceil(Len(s.current_menu_items) + 2, 3)
         ELSE Ceil(Len(s.current_menu_items), 3)

\* get_current_screen that slices a headed menu like a plain one after page 0
get_current_screen_no_offset(s) ==
    IF s.current_application # None THEN ApplicationScreen(s.current_application)
    ELSE IF s.current_menu = None THEN NoScreen
    ELSE IF s.page_index = 0 /\ s.current_menu \in Headed
         THEN PageWidget(PySlice(s.current_menu_items, 0, 1))
         ELSE PageWidget(PySlice(s.current_menu_items,
                                 s.page_index * 3, s.page_index * 3 + 3))

get_current_screen(s) ==
    IF s.current_application # None THEN ApplicationScreen(s.current_application)
    ELSE IF s.current_menu = None THEN NoScreen
    ELSE IF s.page_index = 0 /\ s.current_menu \in Headed
         THEN PageWidget(PySlice(s.current_menu_items, 0, 1))
         ELSE LET offset == IF s.current_menu \in Headed THEN -(PAGE_SIZE - 1) ELSE 0
              IN  PageWidget(PySlice(s.current_menu_items,
                                     s.page_index * 3 + offset,
                                     s.page_index * 3 + 3 + offset))

----------------------------------------------------------------------------
(* MenuWidget: transitions and the display driver *)

\* screen_manager.switch_to(self.current_screen, transition=kind): the page is
\* built, shown, and the transition starts; its first on_progress (progression 0)
\* activates high-fps mode
switch_to(s, kind) ==
    LET scr == get_current_screen(s)
    IN  IF scr.k = "ValueError" THEN Raise(s, "ValueError")
        ELSE IF scr.k = "none" THEN Raise(s, "AssertionError")
        ELSE [s EXCEPT !.screen = scr, !.transition = kind, !.fps = "high",
                       !.switched = TRUE]

\* _handle_transition_complete
handle_transition_complete(s) == [s EXCEPT !.transition = "none", !.fps = "low"]

----------------------------------------------------------------------------
(* MenuWidget: setters *)

\* the subscriptions after set_current_menu forgets the one it holds uncancelled
Resubscribed_no_cancel(s, menu) ==
    IF menu # None /\ menu \in Reactive THEN Append(s.subscribers, menu)
    ELSE s.subscribers

\* the subscriptions after set_current_menu: the one held is cancelled, and
\* refresh_items is subscribed to the items of a menu whose items are observable
Resubscribed(s, menu) ==
    LET kept == IF s.cancel_items_subscription # None
                THEN ListRemove(s.subscribers, s.cancel_items_subscription)
                ELSE s.subscribers
    IN  IF menu # None /\ menu \in Reactive THEN Append(kept, menu) ELSE kept

\* set_current_menu without the clamp of page_index
set_current_menu_no_clamp(s, menu) ==
    LET s1 == [s EXCEPT !.current_menu_items = menu_items(s, menu),
                        !.cancel_items_subscription =
                            IF menu # None /\ menu \in Reactive THEN menu ELSE None,
                        !.subscribers = Resubscribed(s, menu),
                        !.current_menu = menu]
    IN  IF menu = None THEN [s1 EXCEPT !.page_index = 0]
        ELSE [s1 EXCEPT !.current_application = None]

\* set_current_menu that leaves the current application set
set_current_menu_keeps_application(s, menu) ==
    LET s1 == [s EXCEPT !.current_menu_items = menu_items(s, menu),
                        !.cancel_items_subscription =
                            IF menu # None /\ menu \in Reactive THEN menu ELSE None,
                        !.subscribers = Resubscribed(s, menu),
                        !.current_menu = menu]
        pages == get_pages(s1)
    IN  IF menu = None THEN [s1 EXCEPT !.page_index = 0]
        ELSE IF s1.page_index >= pages
             THEN [s1 EXCEPT !.page_index = Max(get_pages(s1) - 1, 0)]
             ELSE s1

\* (the last statement, which positions the slider widget, sets no field of the
\* menu widget and is left out)
set_current_menu(s, menu) ==
    LET s1 == [s EXCEPT !.current_menu_items = menu_items(s, menu),
                        !.cancel_items_subscription =
                            IF menu # None /\ menu \in Reactive THEN menu ELSE None,
                        !.subscribers = Resubscribed(s, menu),
                        !.current_menu = menu]
    IN  IF menu = None THEN [s1 EXCEPT !.page_index = 0]
        ELSE LET s2 == [s1 EXCEPT !.current_application = None]
                 pages == get_pages(s2)
             IN  IF s2.page_index >= pages
                 THEN [s2 EXCEPT !.page_index = Max(get_pages(s2) - 1, 0)]
                 ELSE s2

\* set_current_application that leaves the current menu set
set_current_application_keeps_menu(s, application) ==
    [s EXCEPT !.current_application = application]

set_current_application(s, application) ==
    LET s1 == [s EXCEPT !.current_application = application]
    IN  IF application # None THEN set_current_menu(s1, None) ELSE s1

\* refresh_items, the callback set_current_menu subscribes to the menu's items
refresh_items(s, items) ==
    switch_to([s EXCEPT !.current_menu_items = items], "no")

----------------------------------------------------------------------------
(* MenuWidget: navigation *)

\* set_root_menu without the reset of the stack
set_root_menu_keeps_stack(s, root_menu) ==
    switch_to(set_current_menu(s, root_menu), "no")

set_root_menu(s, root_menu) ==
    switch_to(set_current_menu([s EXCEPT !.stack = <<>>], root_menu), "no")

\* go_down that drops the top frame when it rotates past the last page
go_down_drops_frame(s) ==
    IF s.current_application # None THEN [s EXCEPT !.out = "app"]
    ELSE IF Len(s.current_menu_items) = 0 THEN s
    ELSE IF get_pages(s) = 0 THEN Raise(s, "ZeroDivisionError")
    ELSE LET s1 == IF s.page_index + 1 >= get_pages(s) /\ s.stack # <<>>
                   THEN [s EXCEPT !.stack = SubSeq(@, 1, Len(@) - 1)]
                   ELSE s
         IN  switch_to([s1 EXCEPT !.page_index = (s.page_index + 1) % get_pages(s)],
                       "slide")

\* go_down that stops at the last page
go_down_no_wrap(s) ==
    IF s.current_application # None THEN [s EXCEPT !.out = "app"]
    ELSE IF Len(s.current_menu_items) = 0 THEN s
    ELSE IF s.page_index + 1 >= get_pages(s) THEN switch_to(s, "slide")
    ELSE switch_to([s EXCEPT !.page_index = s.page_index + 1], "slide")

\* go_down without the return on an empty menu
go_down_no_empty_guard(s) ==
    IF s.current_application # None THEN [s EXCEPT !.out = "app"]
    ELSE IF get_pages(s) = 0 THEN Raise(s, "ZeroDivisionError")
    ELSE switch_to([s EXCEPT !.page_index = (s.page_index + 1) % get_pages(s)], "slide")

go_down(s) ==
    IF s.current_application # None THEN [s EXCEPT !.out = "app"]
    ELSE IF Len(s.current_menu_items) = 0 THEN s
    ELSE IF get_pages(s) = 0 THEN Raise(s, "ZeroDivisionError")
    ELSE switch_to([s EXCEPT !.page_index = (s.page_index + 1) % get_pages(s)], "slide")

\* go_up that stops at the first page
go_up_no_wrap(s) ==
    IF s.current_application # None THEN [s EXCEPT !.out = "app"]
    ELSE IF Len(s.current_menu_items) = 0 THEN s
    ELSE switch_to([s EXCEPT !.page_index = Max(s.page_index - 1, 0)], "slide")

go_up(s) ==
    IF s.current_application # None THEN [s EXCEPT !.out = "app"]
    ELSE IF Len(s.current_menu_items) = 0 THEN s
    ELSE IF get_pages(s) = 0 THEN Raise(s, "ZeroDivisionError")
    ELSE switch_to([s EXCEPT !.page_index = (s.page_index - 1) % get_pages(s)], "slide")

\* push_menu that leaves page_index where it was
push_menu_keeps_page(s) ==
    IF s.current_menu # None
    THEN [s EXCEPT !.stack = Append(@, MenuFrame(s.current_menu, s.page_index))]
    ELSE IF s.current_application # None
         THEN [s EXCEPT !.stack = Append(@, AppFrame(s.current_application))]
         ELSE s

\* push_menu that pushes nothing while an application is current
push_menu_menus_only(s) ==
    LET s1 == IF s.current_menu # None
              THEN [s EXCEPT !.stack = Append(@, MenuFrame(s.current_menu, s.page_index))]
              ELSE s
    IN  [s1 EXCEPT !.page_index = 0]

\* push_menu that resets page_index before it saves the frame
push_menu_resets_first(s) ==
    LET s1 == [s EXCEPT !.page_index = 0]
    IN  IF s1.current_menu # None
        THEN [s1 EXCEPT !.stack = Append(@, MenuFrame(s1.current_menu, s1.page_index))]
        ELSE IF s1.current_application # None
             THEN [s1 EXCEPT !.stack = Append(@, AppFrame(s1.current_application))]
             ELSE s1

push_menu(s) ==
    LET s1 == IF s.current_menu # None
              THEN [s EXCEPT !.stack = Append(@, MenuFrame(s.current_menu, s.page_index))]
              ELSE IF s.current_application # None
                   THEN [s EXCEPT !.stack = Append(@, AppFrame(s.current_application))]
                   ELSE s
    IN  [s1 EXCEPT !.page_index = 0]

clean_application(s, application) == [s EXCEPT !.bound = @ \ {application}]

\* pop_menu that, at depth 0, skips the pop but still switches the screen
pop_menu_switches_at_depth_0(s) ==
    IF get_depth(s) = 0 THEN switch_to(s, "slide")
    ELSE LET target == s.stack[Len(s.stack)]
             s1 == [s EXCEPT !.stack = SubSeq(@, 1, Len(@) - 1)]
         IN  IF target[1] = "app"
             THEN LET s2 == IF s1.current_application # None
                            THEN clean_application(s1, s1.current_application)
                            ELSE s1
                  IN  switch_to(set_current_application(s2, target[2]), "swap")
             ELSE LET tr == IF s1.current_application # None THEN "swap" ELSE "slide"
                      s2 == set_current_menu(s1, target[2])
                  IN  switch_to([s2 EXCEPT !.page_index = target[3]], tr)

pop_menu(s) ==
    IF get_depth(s) = 0 THEN s
    ELSE LET target == s.stack[Len(s.stack)]
             s1 == [s EXCEPT !.stack = SubSeq(@, 1, Len(@) - 1)]
         IN  IF target[1] = "app"
             THEN LET s2 == IF s1.current_application # None
                            THEN clean_application(s1, s1.current_application)
                            ELSE s1
                  IN  switch_to(set_current_application(s2, target[2]), "swap")
             ELSE LET tr == IF s1.current_application # None THEN "swap" ELSE "slide"
                      s2 == set_current_menu(s1, target[2])
                  IN  switch_to([s2 EXCEPT !.page_index = target[3]], tr)

\* go_back that does not offer the event to the current application
go_back_not_offered(s, handled) == pop_menu([s EXCEPT !.fps = "high"])

\* handled: what the current application's own go_back() returns
go_back(s, handled) ==
    IF s.current_application # None /\ handled THEN [s EXCEPT !.out = "app"]
    ELSE pop_menu([s EXCEPT !.fps = "high"])

open_application(s, application) ==
    LET s1 == push_menu([s EXCEPT !.fps = "high"])
        s2 == switch_to(set_current_application(s1, application), "swap")
    IN  IF Raised(s2) THEN s2 ELSE [s2 EXCEPT !.bound = @ \cup {application}]

\* close_application that removes the bottom frame for a stacked application
close_application_removes_bottom(s, application, handled) ==
    LET s1 == clean_application(s, application)
    IN  IF application = s1.current_application THEN go_back(s1, handled)
        ELSE IF InStack(s1.stack, AppFrame(application))
             THEN [s1 EXCEPT !.stack = Tail(@)]
             ELSE s1

\* close_application that goes back whether or not the widget holds the application
close_application_always_goes_back(s, application, handled) ==
    go_back(clean_application(s, application), handled)

\* close_application that goes back for any application the widget holds
close_application_goes_back(s, application, handled) ==
    LET s1 == clean_application(s, application)
    IN  IF application = s1.current_application
             \/ InStack(s1.stack, AppFrame(application))
        THEN pop_menu([s1 EXCEPT !.fps = "high"])
        ELSE s1

close_application(s, application, handled) ==
    LET s1 == clean_application(s, application)
    IN  IF application = s1.current_application THEN go_back(s1, handled)
        ELSE IF InStack(s1.stack, AppFrame(application))
             THEN [s1 EXCEPT !.stack = ListRemove(@, AppFrame(application))]
             ELSE s1

\* select that enters the menu an action returns without pushing a frame
select_action_menu_no_push(s, index, ret, fresh) ==
    IF s.screen.k = "none" THEN [s EXCEPT !.out = "warning"]
    ELSE LET item == get_item(s.screen, index)
         IN  IF item = NoItem THEN [s EXCEPT !.out = "warning"]
             ELSE IF ItemKind(item) = "ActionItem"
                  THEN IF ret[1] = "none" THEN s
                       ELSE IF ret[1] = "app" THEN open_application(s, fresh)
                       ELSE switch_to(set_current_menu(s, ret[2]), "slide")
             ELSE IF ItemKind(item) = "ApplicationItem"
                  THEN open_application(s, fresh)
             ELSE switch_to(set_current_menu(push_menu(s), sub_menu(item)), "slide")

\* ret: what an ActionItem's callback returns; fresh: the instance a selected
\* application class is instantiated to
select(s, index, ret, fresh) ==
    IF s.screen.k = "none" THEN [s EXCEPT !.out = "warning"]
    ELSE LET item == get_item(s.screen, index)
         IN  IF item = NoItem THEN [s EXCEPT !.out = "warning"]
             ELSE IF ItemKind(item) = "ActionItem"
                  THEN IF ret[1] = "none" THEN s
                       ELSE IF ret[1] = "app" THEN open_application(s, fresh)
                       ELSE switch_to(set_current_menu(push_menu(s), ret[2]), "slide")
             ELSE IF ItemKind(item) = "ApplicationItem"
                  THEN open_application(s, fresh)
             ELSE LET s1 == set_current_menu(push_menu(s), sub_menu(item))
                      scr == get_current_screen(s1)
                  IN  IF scr.k = "ValueError" THEN Raise(s1, "ValueError")
                      ELSE IF scr.k = "none" THEN s1
                      ELSE switch_to(s1, "slide")

----------------------------------------------------------------------------
(* The earlier MenuWidget (src/ubo/menu): pages are built when a menu is set *)

\* the earlier widget as constructed; shown is <<i>> while 'Page d i' is the
\* current screen; given, offset and chunks are the last call of paginate
EarlierConstructed ==
    [pages |-> <<>>, page_index |-> 0, current_menu |-> None, count |-> 0,
     shown |-> <<>>, fps |-> "low", op |-> "init", out |-> "ok",
     given |-> <<>>, offset |-> 0, chunks |-> <<>>]

\* the chunks range(i, len(items), PAGE_SIZE) yields from position i on
RECURSIVE paginate_from(_, _)
paginate_from(items, i) ==
    IF i >= Len(items) THEN <<>>
    ELSE <<PySlice(items, i, i + PAGE_SIZE)>> \o paginate_from(items, i + PAGE_SIZE)

\* paginate(items, offset)
paginate(items, offset) == paginate_from(items, PAGE_SIZE - offset)

\* HeaderMenuPageWidget(item, heading, sub_heading): a page of the one item
HeaderMenuPageWidget(item) == [k |-> "page", app |-> None, items |-> <<item>>]

\* the loop of set_current_menu over the chunks: a page per chunk is appended
RECURSIVE append_pages(_, _)
append_pages(w, chunks) ==
    IF chunks = <<>> \/ w.out # "ok" THEN w
    ELSE LET page == PageWidget(Head(chunks))
         IN  IF page.k = "ValueError" THEN [w EXCEPT !.out = "ValueError"]
             ELSE append_pages([w EXCEPT !.pages = Append(@, page)], Tail(chunks))

\* set_current_menu(menu) of the earlier widget, menu having n items
earlier_set_current_menu(w, menu, n) ==
    LET items == Items(menu, n)
        w1 == [w EXCEPT !.fps = "high", !.pages = <<>>, !.shown = <<>>,
                        !.page_index = 0, !.current_menu = menu, !.count = n,
                        !.out = "ok"]
        w2 == IF menu \in Headed
              THEN IF n = 0 THEN [w1 EXCEPT !.out = "IndexError"]
                   ELSE [w1 EXCEPT !.pages = <<HeaderMenuPageWidget(items[1])>>]
              ELSE LET first_page == PageWidget(PySlice(items, 0, 3))
                   IN  IF first_page.k = "ValueError"
                       THEN [w1 EXCEPT !.out = "ValueError"]
                       ELSE [w1 EXCEPT !.pages = <<first_page>>]
        w3 == append_pages(w2, paginate(items, IF menu \in Headed THEN 2 ELSE 0))
    IN  IF w3.out # "ok" THEN w3
        ELSE [w3 EXCEPT !.shown = <<0>>, !.fps = "low"]

\* update(): high-fps mode, and the page of page_index becomes the screen
update(w) == [w EXCEPT !.fps = "high", !.shown = <<w.page_index>>]

go_to_next_page(w) ==
    IF w.count = 0 THEN w
    ELSE LET i == w.page_index + 1
         IN  update([w EXCEPT !.page_index = IF i >= Len(w.pages) THEN 0 ELSE i])

go_to_previous_page(w) ==
    IF w.count = 0 THEN w
    ELSE LET i == w.page_index - 1
         IN  update([w EXCEPT !.page_index = IF i < 0 THEN Len(w.pages) - 1 ELSE i])

----------------------------------------------------------------------------
(* The state machine *)

\* the widget as a record of the variables, at the start of an operation
Self == [stack |-> stack, current_menu |-> current_menu,
         current_menu_items |-> current_menu_items,
         current_application |-> current_application, page_index |-> page_index,
         cancel_items_subscription |-> cancel_items_subscription,
         subscribers |-> subscribers,
         screen |-> screen, transition |-> transition, fps |-> fps, bound |-> bound,
         produces |-> 0, out |-> "ok", switched |-> FALSE]

\* the widget at the start of an operation during which a dynamic menu's items,
\* if they are evaluated, are n items
SelfWith(n) == [Self EXCEPT !.produces = n]

\* the application instances the widget holds: the current one and those on the stack
InUse(s) == {a \in Apps : a = s.current_application \/ InStack(s.stack, AppFrame(a))}

\* what kind of screen is current
Current(s) == IF s.current_application # None THEN "application"
              ELSE IF s.current_menu # None THEN "menu"
              ELSE "none"

\* What an operation leaves behind for the properties: its name, the case its
\* inputs fall in (case), the application it was called with (arg), whether it
\* warned or raised (out), whether it called switch_to (switched).
Done(s, op, case, arg) ==
    [op |-> op, case |-> case, arg |-> arg, out |-> s.out, switched |-> s.switched]

\* An application the widget no longer holds is forgotten: its number stands for
\* an instance created later, whose on_close is not bound yet.
Commit(s, op, case, arg) ==
    /\ stack' = s.stack
    /\ current_menu' = s.current_menu
    /\ current_menu_items' = s.current_menu_items
    /\ current_application' = s.current_application
    /\ page_index' = s.page_index
    /\ cancel_items_subscription' = s.cancel_items_subscription
    /\ subscribers' = s.subscribers
    /\ screen' = s.screen
    /\ transition' = s.transition
    /\ fps' = s.fps
    /\ bound' = s.bound \cap InUse(s)
    /\ last' = Done(s, op, case, arg)
    /\ earlier' = earlier

\* how many items the items of menu m may evaluate to
Produces(m) == IF m \in Dynamic THEN 0..MaxItems ELSE {0}

\* the item select(index) picks from the shown screen, the inputs that decide what
\* selecting it does, and the branch of select they take
Selected(index) == IF screen.k = "none" THEN NoItem ELSE get_item(screen, index)
SelectedKind(index) ==
    IF Selected(index) = NoItem THEN "none" ELSE ItemKind(Selected(index))
\* an invalid selection: no screen is shown, or the shown page has no such item
InvalidSelection(index) ==
    screen.k = "none" \/ index < 0 \/ index >= Len(screen.items)
SelectReturns(index) ==
    IF SelectedKind(index) = "ActionItem" THEN Returns ELSE {NoReturn}
SelectCase(index, ret) ==
    CASE InvalidSelection(index) -> "invalid"
      [] SelectedKind(index) = "none" -> "none"
      [] SelectedKind(index) = "SubMenuItem" -> "sub_menu"
      [] SelectedKind(index) = "ApplicationItem" -> "application"
      [] OTHER -> IF ret[1] = "none" THEN "action_none"
                  ELSE IF ret[1] = "menu" THEN "action_menu"
                  ELSE "action_application"
SelectEnters(index, ret) ==
    CASE SelectCase(index, ret) = "sub_menu" -> sub_menu(Selected(index))
      [] SelectCase(index, ret) = "action_menu" -> ret[2]
      [] OTHER -> None
SelectFresh(index, ret) ==
    IF SelectCase(index, ret) \in {"application", "action_application"}
    THEN Apps \ InUse(Self) ELSE {None}

\* what select leaves in last.arg: the menu or the application instance it enters
SelectArg(index, ret, fresh) ==
    IF SelectEnters(index, ret) # None THEN SelectEnters(index, ret) ELSE fresh

\* the branches of select that navigate in
NavigatesIn == {"sub_menu", "action_menu", "application", "action_application"}

\* the menu a pop re-enters, if the top frame is a menu frame
TopMenu == IF stack # <<>> /\ stack[Len(stack)][1] = "menu"
           THEN stack[Len(stack)][2] ELSE None

Init ==
    /\ stack = <<>>
    /\ current_menu = None
    /\ current_menu_items = <<>>
    /\ current_application = None
    /\ page_index = 0
    /\ cancel_items_subscription = None
    /\ subscribers = <<>>
    /\ screen = NoScreen
    /\ transition = "none"
    /\ fps = "low"
    /\ bound = {}
    /\ root = None
    /\ nav = 0
    /\ last = [op |-> "init", case |-> "", arg |-> None,
               out |-> "ok", switched |-> FALSE]
    /\ earlier = EarlierConstructed

\* where set_root_menu is called from
CalledFrom == IF current_application # None THEN "application"
              ELSE IF stack # <<>> THEN "nested"
              ELSE IF current_menu # None THEN "root"
              ELSE "initial"

SetRootMenu ==
    \E m \in Menus, n \in 0..MaxItems :
        /\ n \in Produces(m)
        /\ Commit(set_root_menu(SelfWith(n), m), "set_root_menu", CalledFrom, None)
        /\ root' = m
        /\ nav' = 0

GoDown ==
    /\ Commit(go_down(Self), "go_down", "", None)
    /\ UNCHANGED <<root, nav>>

GoUp ==
    /\ Commit(go_up(Self), "go_up", "", None)
    /\ UNCHANGED <<root, nav>>

Select ==
    \E index \in -1..PAGE_SIZE :
        \E ret \in SelectReturns(index) :
            \E fresh \in SelectFresh(index, ret), n \in Produces(SelectEnters(index, ret)) :
                LET s == select(SelfWith(n), index, ret, fresh)
                IN  /\ Len(s.stack) <= MaxDepth
                    /\ Commit(s, "select", SelectCase(index, ret),
                              SelectArg(index, ret, fresh))
                    /\ nav' = IF SelectCase(index, ret) \in NavigatesIn
                              THEN nav + 1 ELSE nav
                    /\ UNCHANGED root

GoBack ==
    \E handled \in (IF current_application = None THEN {FALSE} ELSE BOOLEAN) :
        \E n \in (IF handled THEN {0} ELSE Produces(TopMenu)) :
            LET case == IF handled THEN "handled"
                        ELSE IF stack = <<>> THEN "depth0"
                        ELSE "pop"
            IN  /\ Commit(go_back(SelfWith(n), handled), "go_back", case, None)
                /\ nav' = IF handled THEN nav ELSE Max(nav - 1, 0)
                /\ UNCHANGED root

OpenApplication ==
    \E a \in Apps \ InUse(Self) :
        LET s == open_application(Self, a)
        IN  /\ Len(s.stack) <= MaxDepth
            /\ Commit(s, "open_application", "", a)
            /\ nav' = nav + 1
            /\ UNCHANGED root

\* close_application(a): a's on_close fired (a is bound), or a direct call
CloseApplication ==
    \E a \in Apps :
        \E handled \in (IF a = current_application THEN BOOLEAN ELSE {FALSE}) :
            \E n \in (IF a = current_application /\ ~handled
                      THEN Produces(TopMenu) ELSE {0}) :
                LET case == IF a = current_application
                            THEN (IF handled THEN "current_handled" ELSE "current")
                            ELSE IF InStack(stack, AppFrame(a)) THEN "stacked"
                            ELSE "absent"
                IN  /\ Commit(close_application(SelfWith(n), a, handled),
                              "close_application", case, a)
                    /\ nav' = IF case \in {"current", "stacked"}
                              THEN Max(nav - 1, 0) ELSE nav
                    /\ UNCHANGED root

\* the transition in flight completes
TransitionComplete ==
    /\ transition # "none"
    /\ Commit(handle_transition_complete(Self), "transition_complete", "", None)
    /\ UNCHANGED <<root, nav>>

\* the items of a menu refresh_items is subscribed to change to n items
RefreshItems ==
    \E i \in 1..Len(subscribers), n \in 0..MaxItems :
        /\ Commit(refresh_items(Self, Items(subscribers[i], n)),
                  "refresh_items", "", None)
        /\ UNCHANGED <<root, nav>>

Next ==
    \/ SetRootMenu
    \/ GoDown
    \/ GoUp
    \/ Select
    \/ GoBack
    \/ OpenApplication
    \/ CloseApplication
    \/ TransitionComplete
    \/ RefreshItems

Spec == Init /\ [][Next]_vars

----------------------------------------------------------------------------
(* Pagination on its own: a menu of any length up to MaxLen, paged through *)

\* the widget as constructed: Init as a record
Constructed == [stack |-> <<>>, current_menu |-> None, current_menu_items |-> <<>>,
                current_application |-> None, page_index |-> 0,
                cancel_items_subscription |-> None, subscribers |-> <<>>,
                screen |-> NoScreen,
                transition |-> "none", fps |-> "low", bound |-> {},
                produces |-> 0, out |-> "ok", switched |-> FALSE]

\* the widget constructed, or given a root menu (plain or headed) of n items
InitPages ==
    \/ Init
    \/ \E m \in Dynamic, n \in 0..MaxLen :
          LET s == set_root_menu([Constructed EXCEPT !.produces = n], m)
          IN  /\ stack = s.stack
              /\ current_menu = s.current_menu
              /\ current_menu_items = s.current_menu_items
              /\ current_application = s.current_application
              /\ page_index = s.page_index
              /\ cancel_items_subscription = s.cancel_items_subscription
              /\ subscribers = s.subscribers
              /\ screen = s.screen
              /\ transition = s.transition
              /\ fps = s.fps
              /\ bound = s.bound
              /\ root = m
              /\ nav = 0
              /\ last = [op |-> "set_root_menu", case |-> "initial", arg |-> None,
                         out |-> s.out, switched |-> s.switched]
              /\ earlier = EarlierConstructed

NextPages ==
    \/ GoDown
    \/ GoUp

SpecPages == InitPages /\ [][NextPages]_vars

----------------------------------------------------------------------------
(* The earlier widget on its own *)

\* the variables of the present widget, which the earlier one does not touch
present == <<stack, current_menu, current_menu_items, current_application,
             page_index, cancel_items_subscription, subscribers, screen,
             transition, fps, bound, root, nav, last>>

EarlierSetCurrentMenu ==
    \E menu \in Dynamic, n \in 0..MaxLen :
        /\ earlier' = [earlier_set_current_menu(earlier, menu, n)
                          EXCEPT !.op = "set_current_menu"]
        /\ UNCHANGED present

GoToNextPage ==
    /\ earlier.current_menu # None
    /\ earlier' = [go_to_next_page(earlier) EXCEPT !.op = "go_to_next_page"]
    /\ UNCHANGED present

GoToPreviousPage ==
    /\ earlier.current_menu # None
    /\ earlier' = [go_to_previous_page(earlier) EXCEPT !.op = "go_to_previous_page"]
    /\ UNCHANGED present

\* a call of paginate on n items with an offset the docstring allows
Paginate ==
    \E n \in 0..MaxLen, offset \in 0..(PAGE_SIZE - 1) :
        /\ earlier' = [earlier EXCEPT !.op = "paginate", !.given = Items(1, n),
                                       !.offset = offset,
                                       !.chunks = paginate(Items(1, n), offset)]
        /\ UNCHANGED present

NextEarlier ==
    \/ EarlierSetCurrentMenu
    \/ GoToNextPage
    \/ GoToPreviousPage
    \/ Paginate

SpecEarlier == Init /\ [][NextEarlier]_vars

----------------------------------------------------------------------------
(* Properties *)

Static == Menus \ Dynamic
\* a menu with a heading or with an item has a page
HasPage(m) == m \in Headed \/ StaticCount(m) >= 1
Navigation == <<stack, current_menu, current_application, page_index>>
Top == stack[Len(stack)]
Front(seq) == SubSeq(seq, 1, Len(seq) - 1)

\* C1: while a menu whose item list never changes and that has at least one page
\* is current, 0 <= page_index < get_pages().
C1_PageIndexInBounds ==
    (root # None /\ current_menu \in Static /\ HasPage(current_menu))
        => (0 <= page_index /\ page_index < get_pages(Self))

\* go_back has returned to the last page of the seven-item menu
C1_Witness ==
    /\ last.op = "go_back" /\ last.case = "pop"
    /\ current_menu = 1 /\ page_index = 2 /\ get_pages(Self) = 3

\* C2 (as claimed): also for a menu whose items are produced lazily or reactively,
\* 0 <= page_index < get_pages() whenever a menu is current and get_pages() > 0.
C2_DynamicPageIndexInBounds ==
    (root # None /\ current_menu \in Dynamic /\ get_pages(Self) > 0)
        => (0 <= page_index /\ page_index < get_pages(Self))

\* C3: after set_root_menu, get_depth() = len(stack) = the navigation depth.
C3_DepthIsNavigationDepth ==
    root # None => (get_depth(Self) = Len(stack) /\ get_depth(Self) = nav)

\* an application below the current one has been closed, one level remains
C3_Witness ==
    /\ root # None /\ last.op = "close_application" /\ last.case = "stacked"
    /\ nav = 1 /\ current_application # None

\* C4: selecting a SubMenu item pushes (M, p); go_up and go_down in the child
\* leave the stack alone; go_back from the child pops the frame and restores
\* current_menu = M, page_index = p and the stack.
C4_SubMenuPushPop ==
    [][ /\ (last'.op = "select" /\ last'.case = "sub_menu" /\ current_menu # None)
            => /\ stack' = Append(stack, MenuFrame(current_menu, page_index))
               /\ current_menu' # None /\ current_application' = None
        /\ (last'.op \in {"go_up", "go_down"} /\ current_menu # None)
            => /\ stack' = stack
               /\ current_menu' = current_menu /\ current_application' = None
        /\ (last'.op = "go_back" /\ current_menu # None
                /\ stack # <<>> /\ Top[1] = "menu")
            => /\ current_menu' = Top[2] /\ page_index' = Top[3]
               /\ stack' = Front(stack) /\ current_application' = None
      ]_vars

\* go_back from a menu (slide transition) has restored a page other than the first
C4_Witness ==
    /\ last.op = "go_back" /\ last.case = "pop" /\ transition = "slide"
    /\ current_menu # None /\ page_index > 0

\* C5: opening an application from menu M on page p pushes (M, p) and makes the
\* application current; a go_back that the application does not handle pops the
\* frame and restores M, p and the stack, with no application current.
C5_ApplicationPushPop ==
    [][ /\ ((last'.op = "open_application"
                \/ (last'.op = "select"
                      /\ last'.case \in {"application", "action_application"}))
              /\ current_menu # None)
            => /\ stack' = Append(stack, MenuFrame(current_menu, page_index))
               /\ current_application' = last'.arg /\ current_application' # None
               /\ current_menu' = None
        /\ (last'.op = "go_back" /\ last'.case = "pop" /\ current_application # None
                /\ Top[1] = "menu")
            => /\ current_menu' = Top[2] /\ page_index' = Top[3]
               /\ stack' = Front(stack) /\ current_application' = None
      ]_vars

\* go_back from an application (swap transition) has restored a menu on a page
\* other than the first
C5_Witness ==
    /\ last.op = "go_back" /\ last.case = "pop" /\ transition = "swap"
    /\ current_menu # None /\ current_application = None /\ page_index > 0

\* C6: go_back with an empty stack and the root menu current changes neither the
\* stack, the current menu, the current application nor page_index, and starts no
\* transition.
C6_GoBackAtDepthZero ==
    [][ (last'.op = "go_back" /\ stack = <<>> /\ current_menu # None)
            => /\ UNCHANGED Navigation
               /\ ~last'.switched /\ transition' = transition /\ screen' = screen
               /\ ~Raised(last')
      ]_vars

C6_Witness ==
    /\ last.op = "go_back" /\ last.case = "depth0"
    /\ stack = <<>> /\ current_menu # None /\ root # None

\* the sequence without its i-th element
RemoveAt(seq, i) == SubSeq(seq, 1, i - 1) \o SubSeq(seq, i + 1, Len(seq))

C8_OnCloseClosesCurrent ==
    [][ (last'.op = "close_application" /\ root # None
            /\ current_application # None /\ last'.arg = current_application
            /\ current_application \in bound)
            => /\ current_application' # current_application
               /\ Len(stack') = Len(stack) - 1
               /\ IF Top[1] = "menu"
                  THEN current_menu' = Top[2] /\ current_application' = None
                  ELSE current_application' = Top[2]
      ]_vars

\* C9: select with no screen shown or with an index outside the shown page only
\* warns: stack, current menu, current application and page_index stay.
C9_InvalidSelection ==
    [][ (last'.op = "select" /\ last'.case = "invalid")
            => (UNCHANGED Navigation /\ last'.out = "warning")
      ]_vars

\* an invalid index was selected on a page that shows items
C9_Witness ==
    /\ last.op = "select" /\ last.case = "invalid" /\ last.out = "warning"
    /\ screen.k = "page" /\ Len(screen.items) = 1

EmptyMenuCurrent == current_menu # None /\ current_menu_items = <<>>

\* C10: a menu with no items is entered on page 0; in it go_up, go_down and every
\* select change nothing and do not raise; go_back returns to the parent menu on
\* the page it was left on.
C10_EmptyMenu ==
    [][ /\ (last'.op = "select" /\ last'.case \in {"sub_menu", "action_menu"}
                /\ current_menu_items' = <<>>)
            => (current_menu' # None /\ page_index' = 0 /\ ~Raised(last'))
        /\ (EmptyMenuCurrent /\ last'.op \in {"go_up", "go_down", "select"})
            => (UNCHANGED <<Navigation, current_menu_items, screen>>
                  /\ ~Raised(last'))
        /\ (EmptyMenuCurrent /\ last'.op = "go_back" /\ stack # <<>>
                /\ Top[1] = "menu")
            => (current_menu' = Top[2] /\ page_index' = Top[3]
                  /\ stack' = Front(stack) /\ ~Raised(last'))
      ]_vars

\* go_down was pressed in the empty menu entered from page 1 of the root menu
C10_Witness ==
    /\ last.op = "go_down" /\ last.out = "ok" /\ current_menu = 5 /\ page_index = 0
    /\ stack = <<MenuFrame(1, 1)>>

----------------------------------------------------------------------------
(* Pagination *)

\* the least number of threes that cover x
CeilThird(x) == CHOOSE k \in 0..x : 3 * k >= x /\ (k = 0 \/ 3 * (k - 1) < x)

\* the page get_current_screen builds for page p of the current menu
PageAt(p) == get_current_screen([Self EXCEPT !.page_index = p])

\* the items of pages 0 .. p-1, in page order
RECURSIVE PagesConcat(_)
PagesConcat(p) == IF p = 0 THEN <<>> ELSE PagesConcat(p - 1) \o PageAt(p - 1).items

\* C11: get_pages() is 0 when no menu is current, ceil(n/3) for a plain menu of n
\* items and ceil((n+2)/3) for a headed menu of n items
C11_PagesOfCount ==
    LET n == Len(current_menu_items)
    IN  get_pages(Self) = IF current_menu = None THEN 0
                          ELSE IF current_menu \in Headed THEN CeilThird(n + 2)
                          ELSE CeilThird(n)

\* a headed menu of two items has two pages, and has been paged through
C11_Witness ==
    /\ current_menu \in Headed
    /\ Len(current_menu_items) = 2
    /\ get_pages(Self) = 2
    /\ last.op = "go_down"

\* C12: for a menu of n >= 1 items the pages 0 .. get_pages()-1 partition the
\* items: concatenated in page order they are the item sequence, every item is on
\* exactly one page, and no page is empty
C12_PagesPartitionItems ==
    (current_menu # None /\ Len(current_menu_items) >= 1) =>
        LET pages == get_pages(Self)
        IN  /\ PagesConcat(pages) = current_menu_items
            /\ \A i \in 1..Len(current_menu_items) :
                   Cardinality({p \in 0..(pages - 1) :
                       \E j \in 1..Len(PageAt(p).items) :
                           PageAt(p).items[j] = current_menu_items[i]}) = 1
            /\ \A p \in 0..(pages - 1) :
                   PageAt(p).k = "page" /\ PageAt(p).items # <<>>

\* a headed menu of five items, three pages, paged upwards to its last page
C12_Witness ==
    /\ current_menu \in Headed
    /\ Len(current_menu_items) = 5
    /\ page_index = 2
    /\ last.op = "go_up"
    /\ screen.items = <<Item(current_menu, 5)>>

\* C13: PageWidget raises ValueError exactly when given more than 3 items, and
\* no navigation reaches it: every page built holds at most 3 items, at most 1
\* on the first page of a headed menu
C13_PageNeverTooLong ==
    /\ \A n \in 0..MaxItems : (PageWidget(Items(1, n)).k = "ValueError") <=> (n > 3)
    /\ last.out # "ValueError"
    /\ screen.k # "ValueError" /\ Len(screen.items) <= 3
    /\ LET scr == get_current_screen(Self)
       IN  /\ scr.k # "ValueError" /\ Len(scr.items) <= 3
           /\ (current_menu # None /\ current_menu \in Headed /\ page_index = 0)
                  => Len(scr.items) <= 1
           /\ (current_menu # None /\ current_menu \in Headed /\ page_index = 0
               /\ last.switched) => Len(screen.items) <= 1

\* a full page of three items is on the screen after paging down
C13_Witness ==
    /\ last.op = "go_down"
    /\ screen.k = "page"
    /\ Len(screen.items) = MAX_ITEMS
    /\ page_index = 1

----------------------------------------------------------------------------
(* Paging, frame rate, and the navigation state *)

\* go_up or go_down acts on a current menu with at least one item
PagedMenu ==
    current_application = None /\ current_menu # None /\ Len(current_menu_items) >= 1

\* C14: go_down on a current menu with at least one item goes to the next page,
\* and from the last page to the first: page_index' = (page_index + 1) mod pages
C14_GoDownRotates ==
    [][(last'.op = "go_down" /\ PagedMenu) =>
          LET pages == get_pages(Self)
          IN  /\ page_index' = (page_index + 1) % pages
              /\ (page_index = pages - 1) => page_index' = 0
              /\ (page_index < pages - 1) => page_index' = page_index + 1
              /\ UNCHANGED <<stack, current_menu, current_menu_items,
                             current_application>>]_vars

\* the seven-item menu shows its first page after go_down: it rotated from the last
C14_Witness ==
    /\ last.op = "go_down"
    /\ current_menu = 1
    /\ page_index = 0
    /\ last.switched

\* C15: go_up on a current menu with at least one item goes to the previous page,
\* and from page 0 to the last page, pages - 1
C15_GoUpRotates ==
    [][(last'.op = "go_up" /\ PagedMenu) =>
          LET pages == get_pages(Self)
          IN  /\ (page_index = 0) => page_index' = pages - 1
              /\ (page_index >= 1) => page_index' = (page_index - 1) % pages
              /\ (page_index \in 1..(pages - 1)) => page_index' = page_index - 1
              /\ UNCHANGED <<stack, current_menu, current_menu_items,
                             current_application>>]_vars

\* the seven-item menu shows its last page after go_up: it rotated from the first
C15_Witness ==
    /\ last.op = "go_up"
    /\ current_menu = 1
    /\ page_index = 2
    /\ last.switched

\* C16: no operation leaves the display driver in high-fps mode with no
\* transition pending, so every activation of high-fps mode is followed by a
\* transition completion that activates low-fps mode
C16_HighFpsHasTransition ==
    root # None => (fps = "high" => transition # "none")

\* the frame an entering operation saves for what is current
CurrentFrame ==
    IF current_menu # None THEN MenuFrame(current_menu, page_index)
    ELSE AppFrame(current_application)

\* C17: the navigation effect of selecting an Action item follows from what its
\* callback returns: nothing leaves stack, current_menu, current_application and
\* page_index unchanged; a menu is entered as a SubMenu item's menu is (one frame
\* pushed, page 0); an application class is instantiated and opened as an
\* Application item's is
C17_ActionReturnDecides ==
    [][last'.op = "select" =>
          /\ (last'.case = "action_none") => UNCHANGED Navigation
          /\ (last'.case \in {"action_menu", "sub_menu"}) =>
                 /\ stack' = Append(stack, MenuFrame(current_menu, page_index))
                 /\ current_menu' = last'.arg
                 /\ current_application' = None
                 /\ page_index' = 0
                 /\ transition' = "slide"
          /\ (last'.case \in {"action_application", "application"}) =>
                 /\ stack' = Append(stack, MenuFrame(current_menu, page_index))
                 /\ current_application' = last'.arg
                 /\ last'.arg \in Apps \ InUse(Self)
                 /\ current_menu' = None
                 /\ page_index' = 0
                 /\ transition' = "swap"
                 /\ last'.arg \in bound']_vars

\* an action returned a menu from a later page, and that menu is current on page 0
C17_Witness ==
    /\ last.op = "select"
    /\ last.case = "action_menu"
    /\ current_menu = last.arg
    /\ stack # <<>>
    /\ Top[1] = "menu" /\ Top[3] >= 1
    /\ page_index = 0

\* C18: set_root_menu(m), from any state, ends with an empty stack (depth 0), m
\* the current menu and no current application
C18_SetRootMenuResets ==
    [][last'.op = "set_root_menu" =>
          /\ stack' = <<>>
          /\ current_menu' = root'
          /\ current_application' = None]_vars

\* set_root_menu was called while an application was open
C18_Witness ==
    /\ last.op = "set_root_menu"
    /\ last.case = "application"
    /\ get_depth(Self) = 0
    /\ current_menu = root

\* C19: after set_root_menu, select of a SubMenu item, of an Action returning a
\* menu or an application, of an Application item, and open_application push
\* exactly one frame for what was current, and the entered screen is on page 0
C19_NavigationInPushesOne ==
    [][(root # None /\ \/ last'.op = "select" /\ last'.case \in NavigatesIn
                       \/ last'.op = "open_application") =>
          /\ (current_menu # None) # (current_application # None)
          /\ stack' = Append(stack, CurrentFrame)
          /\ page_index' = 0]_vars

\* an application was opened over an application, which is now the top frame
C19_Witness ==
    /\ root # None
    /\ last.op = "open_application"
    /\ Len(stack) = 2
    /\ Top[1] = "app"
    /\ current_application = last.arg
    /\ page_index = 0

\* C20: after set_root_menu, exactly one of current_menu and current_application
\* is set
C20_MenuXorApplication ==
    root # None => ((current_menu # None) # (current_application # None))

\* an application is current again after go_back left the application above it
C20_Witness ==
    /\ root # None
    /\ last.op = "go_back"
    /\ last.case = "pop"
    /\ current_application # None
    /\ current_menu = None

----------------------------------------------------------------------------
(* Subscriptions, the root frame, and late events *)

\* C21: at most one items subscription is active, and it is the subscription to
\* the items of the current menu: after the current menu changes or an
\* application becomes current, the previous menu's subscription is cancelled,
\* so only the current menu's items reach current_menu_items
C21_OneSubscription ==
    /\ Len(subscribers) <= 1
    /\ \A i \in 1..Len(subscribers) :
           subscribers[i] = current_menu /\ subscribers[i] = cancel_items_subscription
    /\ (current_application # None) => subscribers = <<>>
    /\ (last.op = "refresh_items") =>
           /\ current_menu \in Reactive
           /\ \A j \in 1..Len(current_menu_items) : current_menu_items[j][1] = current_menu

\* a menu with observable items was left for a sub-menu without observable
\* items: no subscription is left
C21_Witness ==
    /\ last.op = "select"
    /\ last.case = "sub_menu"
    /\ stack # <<>>
    /\ Top[1] = "menu" /\ Top[2] \in Reactive
    /\ current_menu \notin Reactive
    /\ subscribers = <<>>

\* C22: after set_root_menu(root) the bottom frame of a non-empty stack is a menu
\* frame of the root menu, and at depth 0 the root menu is current: popping
\* every frame ends with the root menu current
C22_RootAtTheBottom ==
    root # None =>
        /\ stack # <<>> => (stack[1][1] = "menu" /\ stack[1][2] = root)
        /\ stack = <<>> => (current_menu = root /\ current_application = None)

\* go_back popped the last frame: the root menu is current at depth 0, on the
\* later page it was left on
C22_Witness ==
    /\ root # None
    /\ last.op = "go_back"
    /\ last.case = "pop"
    /\ get_depth(Self) = 0
    /\ current_menu = root
    /\ page_index >= 1

\* C23: set_root_menu(m) shows the first page of m: page_index is 0 after it
C23_SetRootMenuFirstPage ==
    last.op = "set_root_menu" => page_index = 0

\* C24: close_application(app) for an application that is neither current nor in
\* the stack leaves stack, current_menu, current_application and page_index
\* unchanged
C24_LateCloseHarmless ==
    [][(last'.op = "close_application" /\ last'.case = "absent") =>
          /\ last'.arg # current_application
          /\ ~InStack(stack, AppFrame(last'.arg))
          /\ UNCHANGED Navigation]_vars

\* an application that is not held was closed while a nested menu was current
C24_Witness ==
    /\ last.op = "close_application"
    /\ last.case = "absent"
    /\ root # None
    /\ stack # <<>>
    /\ current_menu # None

\* C25: while an application is current, go_up and go_down are forwarded to it
\* and go_back is offered to it first; when the application handles the event
\* stack, current_application, current_menu and page_index are unchanged
C25_ApplicationHandles ==
    [][(current_application # None /\
          \/ last'.op \in {"go_up", "go_down"}
          \/ last'.op = "go_back" /\ last'.case = "handled") =>
          /\ last'.out = "app"
          /\ ~last'.switched
          /\ UNCHANGED Navigation]_vars

\* the current application handled go_back and is still current over its frame
C25_Witness ==
    /\ last.op = "go_back"
    /\ last.case = "handled"
    /\ last.out = "app"
    /\ current_application # None
    /\ stack # <<>>

\* C26: go_up and go_down leave stack, current_menu and current_application
\* unchanged in every state
C26_PagingKeepsNavigation ==
    [][(last'.op \in {"go_up", "go_down"}) =>
          UNCHANGED <<stack, current_menu, current_application>>]_vars

\* go_down rotated a nested menu from its last page to its first
C26_Witness ==
    /\ last.op = "go_down"
    /\ last.switched
    /\ stack # <<>>
    /\ current_menu # None /\ get_pages(Self) >= 2
    /\ page_index = 0

----------------------------------------------------------------------------
(* The earlier widget: paginate and set_current_menu *)

\* the items of a sequence of chunks, in order
RECURSIVE Flatten(_)
Flatten(chunks) == IF chunks = <<>> THEN <<>> ELSE Head(chunks) \o Flatten(Tail(chunks))

\* the items of a sequence of pages, in order
PageItems(pages) == Flatten([i \in 1..Len(pages) |-> pages[i].items])

\* C27: paginate(items, offset) with 0 <= offset < PAGE_SIZE yields chunks that
\* concatenated in order are items; the first chunk has PAGE_SIZE - offset items
\* (fewer only when items run out) and every later chunk at most PAGE_SIZE
C27_PaginateCoversItems ==
    (earlier.op = "paginate") =>
        /\ Flatten(earlier.chunks) = earlier.given
        /\ (earlier.given # <<>>) =>
               /\ earlier.chunks # <<>>
               /\ Len(earlier.chunks[1]) =
                      IF Len(earlier.given) < PAGE_SIZE - earlier.offset
                      THEN Len(earlier.given) ELSE PAGE_SIZE - earlier.offset
        /\ \A i \in 2..Len(earlier.chunks) : Len(earlier.chunks[i]) <= PAGE_SIZE

\* C28: the earlier set_current_menu(menu) creates the pages of a menu of any
\* number n >= 0 of items, headed or plain, without raising: the pages' items in
\* order are the menu's items, a page holds at most 3 items (the headed first
\* page one), page_index is 0 and page 0 is the shown screen
C28_EarlierPagesCoverItems ==
    (earlier.op = "set_current_menu") =>
        /\ earlier.out = "ok"
        /\ PageItems(earlier.pages) = Items(earlier.current_menu, earlier.count)
        /\ \A i \in 1..Len(earlier.pages) : Len(earlier.pages[i].items) <= 3
        /\ (earlier.current_menu \in Headed) =>
               (earlier.pages # <<>> /\ Len(earlier.pages[1].items) = 1)
        /\ earlier.page_index = 0
        /\ earlier.shown = <<0>>
====
